---- MODULE Spec2Model ----
(***************************************************************************)
(* King County offense dashboard (src/app.py): the start-up script that    *)
(* loads and cleans the incident table, caches and loads the ZIP boundary  *)
(* shapefile, derives the dropdown options, and the three Dash callbacks   *)
(* update_map, update_trend and update_hourly_trend.                       *)
(*                                                                         *)
(* Text is a sequence of one-character strings, so that astype(str),       *)
(* str.zfill, Period formatting and string sorting are computed.  A table  *)
(* is a sequence of rows, a row a record of cells, and a cell that can be  *)
(* missing is [isna, ...].  A timestamp is <<year, month, day, hour>>.     *)
(***************************************************************************)
EXTENDS Integers, Sequences, FiniteSets, TLC

VARIABLES
    csv,            \* the table pd.read_csv returns for the incident URL
    archive,        \* ZCTA5CE20 of each record of the remote shapefile archive
    dirExists,      \* filesystem: the directory "shapefiles" exists
    shpOnDisk,      \* filesystem: shapefiles/cb_2020_us_zcta520_500k.shp exists
    pc,             \* the statement of app.py the process is at
    skipped,        \* this start-up found the directory and skipped the download
    df,             \* module-level incident table
    zip_geo,        \* module-level boundary table
    month_options,
    crime_options,
    crime,          \* value of crime-dropdown
    month,          \* value of month-dropdown
    queue,          \* callback requests the Dash runtime has not yet dispatched
    map_fig,        \* data of figure zip-map (the merged table)
    map_call,       \* arguments of the latest update_map call
    trend_fig,      \* figure trend-line: title argument and data
    hourly_fig      \* figure hourly-line: title argument and data

vars == <<csv, archive, dirExists, shpOnDisk, pc, skipped, df, zip_geo,
          month_options, crime_options, crime, month, queue, map_fig,
          map_call, trend_fig, hourly_fig>>

fsVars == <<dirExists, shpOnDisk>>
remoteVars == <<csv, archive>>
uiVars == <<crime, month, queue, map_fig, map_call, trend_fig, hourly_fig>>
optVars == <<month_options, crime_options>>

(***************************************************************************)
(* Bounds of the model.                                                    *)
(***************************************************************************)
MaxRows == 2        \* rows of the incident table
MaxGeo == 2         \* records of the boundary archive
MaxQueue == 3       \* callback requests in flight

(***************************************************************************)
(* Text helpers.                                                           *)
(***************************************************************************)
DigitChars == <<"0", "1", "2", "3", "4", "5", "6", "7", "8", "9">>

\* Characters in code-point order, as far as the model's texts use them.
CharOrder == <<"-", ".", "0", "1", "2", "3", "4", "5", "6", "7", "8", "9">>

CharCode(c) == CHOOSE i \in 1..Len(CharOrder) : CharOrder[i] = c

DigitValue(c) == (CHOOSE i \in 1..10 : DigitChars[i] = c) - 1

RECURSIVE IntToStr(_)
\* str(n) of a non-negative int: decimal digits, no leading zeros.
IntToStr(n) ==
    IF n < 10 THEN <<DigitChars[n + 1]>>
    ELSE IntToStr(n \div 10) \o <<DigitChars[(n % 10) + 1]>>

\* str(x) of a float64 holding the whole number n: "98101.0".
FloatToStr(n) == IntToStr(n) \o <<".", "0">>

RECURSIVE StrToInt(_)
StrToInt(s) ==
    IF s = <<>> THEN 0
    ELSE 10 * StrToInt(SubSeq(s, 1, Len(s) - 1)) + DigitValue(s[Len(s)])

\* str.zfill(width): pads on the left with "0" up to width, never truncates.
zfill(s, width) ==
    IF Len(s) >= width THEN s
    ELSE [i \in 1..(width - Len(s)) |-> "0"] \o s

RECURSIVE StrLess(_, _)
\* Python's < on str: lexicographic by code point.
StrLess(a, b) ==
    IF b = <<>> THEN FALSE
    ELSE IF a = <<>> THEN TRUE
    ELSE IF a[1] # b[1] THEN CharCode(a[1]) < CharCode(b[1])
    ELSE StrLess(Tail(a), Tail(b))

(***************************************************************************)
(* Cells.                                                                  *)
(***************************************************************************)
NoTime == <<0, 0, 0, 0>>
NaT == [isna |-> TRUE, t |-> NoTime]
Timestamp(t) == [isna |-> FALSE, t |-> t]

NaNZip == [isna |-> TRUE, kind |-> "float", n |-> 0, s |-> <<>>]
IntZip(n) == [isna |-> FALSE, kind |-> "int", n |-> n, s |-> <<>>]
FloatZip(n) == [isna |-> FALSE, kind |-> "float", n |-> n, s |-> <<>>]
StrZip(s) == [isna |-> FALSE, kind |-> "str", n |-> 0, s |-> s]

NaNCat == [isna |-> TRUE, v |-> ""]
Cat(name) == [isna |-> FALSE, v |-> name]

NaNCount == [isna |-> TRUE, v |-> 0]
Count(n) == [isna |-> FALSE, v |-> n]

\* A raw incident_datetime cell: missing, or a text that is either a
\* well-formed date-time <<y, m, d, h>> or not a date at all (<<>>).
NaNText == [isna |-> TRUE, text |-> <<>>]
Text(x) == [isna |-> FALSE, text |-> x]

(***************************************************************************)
(* Lines 17-25: load and clean the incident table.                         *)
(***************************************************************************)
\* pd.Timestamp("2020-01-01")
Cutoff == <<2020, 1, 1, 0>>

\* t1 >= t2 on timestamps.
TimeGe(t1, t2) ==
    \/ t1 = t2
    \/ \E i \in 1..4 : /\ t1[i] > t2[i]
                       /\ \A j \in 1..(i - 1) : t1[j] = t2[j]

\* pd.to_datetime(cell, errors="coerce") on one cell.
to_datetime(cell) ==
    IF cell.isna \/ Len(cell.text) # 4 THEN NaT ELSE Timestamp(cell.text)

\* CutoffMask with > for >=: a row at exactly the cutoff is lost.
CutoffMaskStrict(row) ==
    /\ ~row.incident_datetime.isna
    /\ row.incident_datetime.t # Cutoff
    /\ TimeGe(row.incident_datetime.t, Cutoff)

\* df["incident_datetime"] >= pd.Timestamp("2020-01-01"); NaT compares False.
CutoffMask(row) ==
    /\ ~row.incident_datetime.isna
    /\ TimeGe(row.incident_datetime.t, Cutoff)

\* the rows dropna(subset=["zip", "nibrs_code_name", "incident_datetime"]) keeps
DropNaMask(row) ==
    /\ ~row.zip.isna
    /\ ~row.nibrs_code_name.isna
    /\ ~row.incident_datetime.isna

\* astype(str) on one zip cell.
astype_str(cell) ==
    IF cell.isna THEN <<"n", "a", "n">>
    ELSE IF cell.kind = "int" THEN IntToStr(cell.n)
    ELSE IF cell.kind = "float" THEN FloatToStr(cell.n)
    ELSE cell.s

\* df["zip"].astype(str).str.zfill(5) on one zip cell.
NormalizeZip(cell) == StrZip(zfill(astype_str(cell), 5))

\* dt.to_period("M").astype(str): "YYYY-MM".
MonthYear(t) == zfill(IntToStr(t[1]), 4) \o <<"-">> \o zfill(IntToStr(t[2]), 2)

\* dt.hour
Hour(t) == t[4]

\* pd.Period(x, freq='M') of a "YYYY-MM" text, as <<year, month>>.
Period(x) == <<StrToInt(SubSeq(x, 1, 4)), StrToInt(SubSeq(x, 6, 7))>>

PeriodLess(p, q) == p[1] < q[1] \/ (p[1] = q[1] /\ p[2] < q[2])

WithCol(row, name, value) == (name :> value) @@ row

\* table[name] = values, for a column the table has
SetCol(table, name, values) ==
    [i \in 1..Len(table) |-> [table[i] EXCEPT ![name] = values[i]]]

\* table[name] = values, for a new column
AddCol(table, name, values) ==
    [i \in 1..Len(table) |-> WithCol(table[i], name, values[i])]

RECURSIVE Unique(_)
\* Series.unique(): the distinct values in order of first appearance.
Unique(s) ==
    IF s = <<>> THEN <<>>
    ELSE LET rest == Unique(SubSeq(s, 1, Len(s) - 1))
             last == s[Len(s)]
         IN  IF \E i \in 1..Len(rest) : rest[i] = last THEN rest
             ELSE Append(rest, last)

Values(s) == {s[i] : i \in 1..Len(s)}

\* groupby(key).size().reset_index(name="count") over the key column `keys`,
\* whose distinct values in sorted order are `groups`: one row per group, with
\* the number of its rows.
GroupSize(keys, groups) ==
    [i \in 1..Len(groups) |->
        [key |-> groups[i],
         count |-> Len(SelectSeq(keys, LAMBDA k : k = groups[i]))]]

\* the groups of a text key column, sorted as groupby sorts them
TextGroups(keys) == SortSeq(Unique(keys), StrLess)

\* the groups of a numeric key column, sorted as groupby sorts them
NumGroups(keys) == SortSeq(Unique(keys), LAMBDA a, b : a < b)

(***************************************************************************)
(* Start-up, statement by statement.  A process starts at "read_csv"; the  *)
(* filesystem is what earlier processes left.                              *)
(***************************************************************************)
NoProcessState ==
    /\ skipped = FALSE
    /\ df = <<>>
    /\ zip_geo = <<>>
    /\ month_options = <<>>
    /\ crime_options = <<>>
    /\ crime = ""
    /\ month = <<>>
    /\ queue = <<>>
    /\ map_fig = <<>>
    /\ map_call = <<>>
    /\ trend_fig = [title |-> "", data |-> <<>>]
    /\ hourly_fig = [title |-> "", data |-> <<>>]

\* line 17, the download succeeds: the rows get the index 0, 1, ...
ReadCsv ==
    /\ pc = "read_csv"
    /\ df' = [i \in 1..Len(csv) |-> WithCol(csv[i], "index", i - 1)]
    /\ pc' = "to_datetime"
    /\ UNCHANGED <<remoteVars, fsVars, skipped, zip_geo, optVars, uiVars>>

\* line 17, the download fails: the exception ends the process
ReadCsvFails ==
    /\ pc = "read_csv"
    /\ pc' = "crashed"
    /\ UNCHANGED <<remoteVars, fsVars, skipped, df, zip_geo, optVars, uiVars>>

\* line 18
ToDatetime ==
    /\ pc = "to_datetime"
    /\ df' = SetCol(df, "incident_datetime",
                    [i \in 1..Len(df) |-> to_datetime(df[i].incident_datetime)])
    /\ pc' = "cutoff"
    /\ UNCHANGED <<remoteVars, fsVars, skipped, zip_geo, optVars, uiVars>>

\* line 21
CutoffFilter ==
    /\ pc = "cutoff"
    /\ df' = SelectSeq(df, CutoffMask)
    /\ pc' = "dropna"
    /\ UNCHANGED <<remoteVars, fsVars, skipped, zip_geo, optVars, uiVars>>

\* line 22
DropNa ==
    /\ pc = "dropna"
    /\ df' = SelectSeq(df, DropNaMask)
    /\ pc' = "zfill"
    /\ UNCHANGED <<remoteVars, fsVars, skipped, zip_geo, optVars, uiVars>>

\* line 23
ZfillZip ==
    /\ pc = "zfill"
    /\ df' = SetCol(df, "zip", [i \in 1..Len(df) |-> NormalizeZip(df[i].zip)])
    /\ pc' = "derive"
    /\ UNCHANGED <<remoteVars, fsVars, skipped, zip_geo, optVars, uiVars>>

\* lines 24-25
Derive ==
    /\ pc = "derive"
    /\ df' = AddCol(AddCol(df, "Month_Year",
                           [i \in 1..Len(df) |-> MonthYear(df[i].incident_datetime.t)]),
                    "hour", [i \in 1..Len(df) |-> Hour(df[i].incident_datetime.t)])
    /\ pc' = "exists"
    /\ UNCHANGED <<remoteVars, fsVars, skipped, zip_geo, optVars, uiVars>>

\* line 36: if not os.path.exists(shapefile_dir)
Exists ==
    /\ pc = "exists"
    /\ skipped' = dirExists
    /\ pc' = IF dirExists THEN "read_file" ELSE "makedirs"
    /\ UNCHANGED <<remoteVars, fsVars, df, zip_geo, optVars, uiVars>>

\* line 37
MakeDirs ==
    /\ pc = "makedirs"
    /\ dirExists' = TRUE
    /\ pc' = "get"
    /\ UNCHANGED <<remoteVars, shpOnDisk, skipped, df, zip_geo, optVars, uiVars>>

\* line 38, the request succeeds
Get ==
    /\ pc = "get"
    /\ pc' = "extract"
    /\ UNCHANGED <<remoteVars, fsVars, skipped, df, zip_geo, optVars, uiVars>>

\* line 38, requests.get raises (no network): the exception ends the process
GetFails ==
    /\ pc = "get"
    /\ pc' = "crashed"
    /\ UNCHANGED <<remoteVars, fsVars, skipped, df, zip_geo, optVars, uiVars>>

\* lines 39-40, the archive is extracted
Extract ==
    /\ pc = "extract"
    /\ shpOnDisk' = TRUE
    /\ pc' = "read_file"
    /\ UNCHANGED <<remoteVars, dirExists, skipped, df, zip_geo, optVars, uiVars>>

\* lines 39-40, ZipFile or extractall raises (the response is no archive, the
\* disk is full) before the shapefile is complete
ExtractFails ==
    /\ pc = "extract"
    /\ pc' = "crashed"
    /\ UNCHANGED <<remoteVars, fsVars, skipped, df, zip_geo, optVars, uiVars>>

\* lines 43-44, the shapefile is read and its ZCTA5CE20 copied to "zip"
ReadFile ==
    /\ pc = "read_file"
    /\ shpOnDisk
    /\ zip_geo' = [i \in 1..Len(archive) |-> [ZCTA5CE20 |-> archive[i], zip |-> archive[i]]]
    /\ pc' = "isin"
    /\ UNCHANGED <<remoteVars, fsVars, skipped, df, optVars, uiVars>>

\* line 43, gpd.read_file finds no shapefile: the exception ends the process
ReadFileFails ==
    /\ pc = "read_file"
    /\ ~shpOnDisk
    /\ pc' = "crashed"
    /\ UNCHANGED <<remoteVars, fsVars, skipped, df, zip_geo, optVars, uiVars>>

\* df["zip"].unique()
DfZips(table) == Unique([i \in 1..Len(table) |-> table[i].zip.s])

\* IsinFilter without the membership test: every loaded boundary stays.
IsinFilterAll(geo, table) == geo

\* zip_geo[zip_geo["zip"].isin(df["zip"].unique())]
IsinFilter(geo, table) ==
    SelectSeq(geo, LAMBDA g : g.zip \in Values(DfZips(table)))

\* line 45
Isin ==
    /\ pc = "isin"
    /\ zip_geo' = IsinFilter(zip_geo, df)
    /\ pc' = "options"
    /\ UNCHANGED <<remoteVars, fsVars, skipped, df, optVars, uiVars>>

\* MonthOptions without sorted(): the months in order of first appearance.
MonthOptionsUnsorted(table) ==
    Unique([i \in 1..Len(table) |-> table[i].Month_Year])

\* line 50
MonthOptions(table) ==
    SortSeq(Unique([i \in 1..Len(table) |-> table[i].Month_Year]),
            LAMBDA a, b : PeriodLess(Period(a), Period(b)))

\* The category names of the model, in sorted() order.
CatOrder == <<"ASSAULT", "LARCENY/THEFT">>

CatRank(name) == CHOOSE i \in 1..Len(CatOrder) : CatOrder[i] = name

\* line 51
CrimeOptions(table) ==
    SortSeq(Unique([i \in 1..Len(table) |-> table[i].nibrs_code_name.v]),
            LAMBDA a, b : CatRank(a) < CatRank(b))

\* lines 50-51
Options ==
    /\ pc = "options"
    /\ month_options' = MonthOptions(df)
    /\ crime_options' = CrimeOptions(df)
    /\ pc' = "layout"
    /\ UNCHANGED <<remoteVars, fsVars, skipped, df, zip_geo, uiVars>>

(***************************************************************************)
(* The Dash layout and callbacks.  A request is a callback with the input  *)
(* values the runtime read when the dropdown changed; the runtime          *)
(* dispatches the requests one at a time, in order.                        *)
(***************************************************************************)
\* line 64: value="LARCENY/THEFT"
DefaultCrime == "LARCENY/THEFT"

Request(cb, c, m) == [cb |-> cb, crime |-> c, month |-> m]

\* the callbacks whose Input is crime-dropdown (lines 85-88, 120-123, 143-146)
CrimeRequests(c, m) ==
    <<Request("update_map", c, m), Request("update_trend", c, <<>>),
      Request("update_hourly_trend", c, <<>>)>>

\* the callback whose Input is month-dropdown (lines 85-89)
MonthRequests(c, m) == <<Request("update_map", c, m)>>

\* lines 56-81 and 170-171: the layout is built with the default values and the
\* page's first load requests every callback
Layout ==
    /\ pc = "layout"
    /\ month_options # <<>>
    /\ crime' = DefaultCrime
    /\ month' = month_options[1]
    /\ queue' = CrimeRequests(DefaultCrime, month_options[1])
    /\ pc' = "serving"
    /\ UNCHANGED <<remoteVars, fsVars, skipped, df, zip_geo, optVars, map_fig,
                   map_call, trend_fig, hourly_fig>>

\* line 71: month_options[0] of an empty list raises IndexError
LayoutFails ==
    /\ pc = "layout"
    /\ month_options = <<>>
    /\ pc' = "crashed"
    /\ UNCHANGED <<remoteVars, fsVars, skipped, df, zip_geo, optVars, uiVars>>

\* the user picks another option of crime-dropdown (lines 61-65)
ChangeCrime ==
    /\ pc = "serving"
    /\ Len(queue) + 3 <= MaxQueue
    /\ \E c \in Values(crime_options) :
          /\ c # crime
          /\ crime' = c
          /\ queue' = queue \o CrimeRequests(c, month)
    /\ UNCHANGED <<remoteVars, fsVars, pc, skipped, df, zip_geo, optVars, month,
                   map_fig, map_call, trend_fig, hourly_fig>>

\* the user picks another option of month-dropdown (lines 68-72)
ChangeMonth ==
    /\ pc = "serving"
    /\ Len(queue) + 1 <= MaxQueue
    /\ \E m \in Values(month_options) :
          /\ m # month
          /\ month' = m
          /\ queue' = queue \o MonthRequests(crime, m)
    /\ UNCHANGED <<remoteVars, fsVars, pc, skipped, df, zip_geo, optVars, crime,
                   map_fig, map_call, trend_fig, hourly_fig>>

\* MapAgg without the month condition: the category's incidents of every month.
MapAggAnyMonth(table, selected_crime, selected_month) ==
    LET sel == SelectSeq(table, LAMBDA r : r.nibrs_code_name.v = selected_crime)
        keys == [i \in 1..Len(sel) |-> sel[i].zip.s]
    IN  GroupSize(keys, TextGroups(keys))

\* lines 92-95: the incidents of the selection, counted by ZIP
MapAgg(table, selected_crime, selected_month) ==
    LET sel == SelectSeq(table, LAMBDA r : /\ r.nibrs_code_name.v = selected_crime
                                        /\ r.Month_Year = selected_month)
        keys == [i \in 1..Len(sel) |-> sel[i].zip.s]
    IN  GroupSize(keys, TextGroups(keys))

RECURSIVE LeftMerge(_, _)
\* line 98: zip_geo.merge(agg, on="zip", how="left"): every left row, once per
\* matching row of agg, or once with a missing count when none matches
LeftMerge(geo, agg) ==
    IF geo = <<>> THEN <<>>
    ELSE LET g == Head(geo)
             m == SelectSeq(agg, LAMBDA a : a.key = g.zip)
         IN  (IF m = <<>> THEN <<WithCol(g, "count", NaNCount)>>
              ELSE [i \in 1..Len(m) |-> WithCol(g, "count", Count(m[i].count))])
             \o LeftMerge(Tail(geo), agg)

\* FillNa left out: the missing counts stay missing.
FillNaSkipped(merged) == merged

\* line 99: merged["count"].fillna(0)
FillNa(merged) ==
    SetCol(merged, "count",
           [i \in 1..Len(merged) |->
               IF merged[i].count.isna THEN Count(0) ELSE merged[i].count])

\* lines 90-99: the table update_map draws
MapView(table, geo, selected_crime, selected_month) ==
    FillNa(LeftMerge(geo, MapAgg(table, selected_crime, selected_month)))

\* TrendView without the category condition: every incident is counted.
TrendViewUnfiltered(table, selected_crime) ==
    LET keys == [i \in 1..Len(table) |-> table[i].Month_Year]
        g == GroupSize(keys, TextGroups(keys))
    IN  SortSeq(g, LAMBDA a, b : StrLess(a.key, b.key))

\* lines 125-131: the table update_trend draws
TrendView(table, selected_crime) ==
    LET sel == SelectSeq(table, LAMBDA r : r.nibrs_code_name.v = selected_crime)
        keys == [i \in 1..Len(sel) |-> sel[i].Month_Year]
        g == GroupSize(keys, TextGroups(keys))
    IN  SortSeq(g, LAMBDA a, b : StrLess(a.key, b.key))

\* lines 148-154: the table update_hourly_trend draws
HourlyView(table, selected_crime) ==
    LET sel == SelectSeq(table, LAMBDA r : r.nibrs_code_name.v = selected_crime)
        keys == [i \in 1..Len(sel) |-> sel[i].hour]
        g == GroupSize(keys, NumGroups(keys))
    IN  SortSeq(g, LAMBDA a, b : a.key < b.key)

\* update_map assigning the merged table to the module-level zip_geo.
update_map_rebinds_zip_geo ==
    /\ pc = "serving"
    /\ queue # <<>>
    /\ Head(queue).cb = "update_map"
    /\ map_fig' = MapView(df, zip_geo, Head(queue).crime, Head(queue).month)
    /\ zip_geo' = map_fig'
    /\ map_call' = <<Head(queue).crime, Head(queue).month>>
    /\ queue' = Tail(queue)
    /\ UNCHANGED <<remoteVars, fsVars, pc, skipped, df, optVars, crime,
                   month, trend_fig, hourly_fig>>

\* lines 90-118, dispatched for the oldest request
update_map ==
    /\ pc = "serving"
    /\ queue # <<>>
    /\ Head(queue).cb = "update_map"
    /\ map_fig' = MapView(df, zip_geo, Head(queue).crime, Head(queue).month)
    /\ map_call' = <<Head(queue).crime, Head(queue).month>>
    /\ queue' = Tail(queue)
    /\ UNCHANGED <<remoteVars, fsVars, pc, skipped, df, zip_geo, optVars, crime,
                   month, trend_fig, hourly_fig>>

\* lines 124-141, dispatched for the oldest request
update_trend ==
    /\ pc = "serving"
    /\ queue # <<>>
    /\ Head(queue).cb = "update_trend"
    /\ trend_fig' = [title |-> Head(queue).crime,
                     data |-> TrendView(df, Head(queue).crime)]
    /\ queue' = Tail(queue)
    /\ UNCHANGED <<remoteVars, fsVars, pc, skipped, df, zip_geo, optVars, crime,
                   month, map_fig, map_call, hourly_fig>>

\* lines 147-167, dispatched for the oldest request
update_hourly_trend ==
    /\ pc = "serving"
    /\ queue # <<>>
    /\ Head(queue).cb = "update_hourly_trend"
    /\ hourly_fig' = [title |-> Head(queue).crime,
                      data |-> HourlyView(df, Head(queue).crime)]
    /\ queue' = Tail(queue)
    /\ UNCHANGED <<remoteVars, fsVars, pc, skipped, df, zip_geo, optVars, crime,
                   month, map_fig, map_call, trend_fig>>

\* The process has ended (the server was stopped, or start-up raised) and
\* app.py is run again: module state starts afresh, the filesystem stays.
Restart ==
    /\ pc \in {"serving", "crashed"}
    /\ pc' = "read_csv"
    /\ skipped' = FALSE
    /\ df' = <<>>
    /\ zip_geo' = <<>>
    /\ month_options' = <<>>
    /\ crime_options' = <<>>
    /\ crime' = ""
    /\ month' = <<>>
    /\ queue' = <<>>
    /\ map_fig' = <<>>
    /\ map_call' = <<>>
    /\ trend_fig' = [title |-> "", data |-> <<>>]
    /\ hourly_fig' = [title |-> "", data |-> <<>>]
    /\ UNCHANGED <<remoteVars, fsVars>>

(***************************************************************************)
(* Inputs.                                                                 *)
(***************************************************************************)
RawRow(ts, zip, cat) == [incident_datetime |-> ts, zip |-> zip, nibrs_code_name |-> cat]

Tables(rows, max) == UNION {[1..n -> rows] : n \in 0..max}

Jan2020 == <<2020, 1, 1, 0>>
Feb2020 == <<2020, 2, 3, 13>>
Dec2019 == <<2019, 12, 31, 23>>
Mar2021 == <<2021, 3, 9, 13>>

\* The dtype pandas gives the zip column, and a ZIP number as a cell of it.
ZipDtypes == {"int64", "float64", "object"}

ZipCell(dtype, n) ==
    IF dtype = "int64" THEN IntZip(n)
    ELSE IF dtype = "float64" THEN FloatZip(n)
    ELSE StrZip(IntToStr(n))

\* Incident rows of the dashboard runs: two categories, three months across a
\* year end, two ZIPs (one short of five digits), one row before the cutoff.
DashRows(dtype) ==
    { RawRow(Text(Mar2021), ZipCell(dtype, 98101), Cat("LARCENY/THEFT")),
      RawRow(Text(Feb2020), ZipCell(dtype, 98101), Cat("LARCENY/THEFT")),
      RawRow(Text(Feb2020), ZipCell(dtype, 8101), Cat("LARCENY/THEFT")),
      RawRow(Text(Jan2020), ZipCell(dtype, 8101), Cat("ASSAULT")),
      RawRow(Text(Dec2019), ZipCell(dtype, 98101), Cat("ASSAULT")) }

\* ZCTA5CE20 values of the boundary archive.
GeoZips == {zfill(IntToStr(98101), 5), zfill(IntToStr(8101), 5)}

Archives == UNION {[1..n -> GeoZips] : n \in 1..MaxGeo}

Init ==
    /\ csv \in UNION {Tables(DashRows(dtype), MaxRows) : dtype \in ZipDtypes}
    /\ archive \in Archives
    /\ dirExists = FALSE
    /\ shpOnDisk = FALSE
    /\ pc = "read_csv"
    /\ NoProcessState

\* Raw cells of the cleaning runs: every way a cell can be missing, malformed,
\* before, at or after the cutoff, and every dtype and length of a ZIP.
CleanTimes == {NaNText, Text(<<>>), Text(Dec2019), Text(Jan2020), Text(Feb2020)}

CleanCats == {NaNCat, Cat("LARCENY/THEFT")}

ZipPlus4 == <<"9", "8", "1", "0", "1", "-", "1", "2", "3", "4">>

CleanZips(dtype) ==
    IF dtype = "int64" THEN {IntZip(8101), IntZip(98101)}
    ELSE IF dtype = "float64" THEN {NaNZip, FloatZip(8101), FloatZip(98101)}
    ELSE {NaNZip, StrZip(IntToStr(8101)), StrZip(IntToStr(98101)), StrZip(ZipPlus4)}

CleanRows(dtype) ==
    {RawRow(ts, zip, cat) : ts \in CleanTimes, zip \in CleanZips(dtype), cat \in CleanCats}

InitClean ==
    /\ csv \in UNION {Tables(CleanRows(dtype), MaxRows) : dtype \in ZipDtypes}
    /\ archive \in [1..1 -> GeoZips]
    /\ dirExists = FALSE
    /\ shpOnDisk = FALSE
    /\ pc = "read_csv"
    /\ NoProcessState

NextClean ==
    \/ ReadCsv
    \/ ToDatetime
    \/ CutoffFilter
    \/ DropNa
    \/ ZfillZip
    \/ Derive

SpecClean == InitClean /\ [][NextClean]_vars

Next ==
    \/ ReadCsv
    \/ ReadCsvFails
    \/ ToDatetime
    \/ CutoffFilter
    \/ DropNa
    \/ ZfillZip
    \/ Derive
    \/ Exists
    \/ MakeDirs
    \/ Get
    \/ GetFails
    \/ Extract
    \/ ExtractFails
    \/ ReadFile
    \/ ReadFileFails
    \/ Isin
    \/ Options
    \/ Layout
    \/ LayoutFails
    \/ ChangeCrime
    \/ ChangeMonth
    \/ update_map
    \/ update_trend
    \/ update_hourly_trend
    \/ Restart

Spec == Init /\ [][Next]_vars

(***************************************************************************)
(* Properties.  They count incidents directly on the tables, by index,     *)
(* without the grouping, merging and filtering operators of the program.   *)
(***************************************************************************)
Rows(table) == 1..Len(table)

\* the incidents of category c in month bucket m
Matching(c, m) ==
    {j \in Rows(df) : df[j].nibrs_code_name.v = c /\ df[j].Month_Year = m}

\* the incidents of category c
OfCategory(c) == {j \in Rows(df) : df[j].nibrs_code_name.v = c}

RECURSIVE SeqSum(_)
\* the sum of a sequence of numbers
SeqSum(q) == IF q = <<>> THEN 0 ELSE Head(q) + SeqSum(Tail(q))

MapSum == SeqSum([i \in Rows(map_fig) |-> map_fig[i].count.v])

MapDrawn == pc = "serving" /\ map_call # <<>>

\* a timestamp as a number of hours, months taken as 31 days
HoursOf(t) == ((t[1] * 12 + t[2]) * 31 + t[3]) * 24 + t[4]

\* C1 as claimed: the counts of the map view sum to the number of cleaned
\* incidents of the selected category and month.
C1_MapSumIsAllMatching ==
    MapDrawn => MapSum = Cardinality(Matching(map_call[1], map_call[2]))

\* C1 as amended: the counts of the map view sum to the number of cleaned
\* incidents of the selected category and month whose ZIP has a retained
\* boundary, each counted once per boundary record of its ZIP.
C1_MapSumIsMatchingWithBoundary ==
    MapDrawn =>
        MapSum = Cardinality({p \in Rows(zip_geo) \X Matching(map_call[1], map_call[2]) :
                                 zip_geo[p[1]].zip = df[p[2]].zip.s})

C1_Witness ==
    /\ MapDrawn
    /\ MapSum >= 1
    /\ \E j \in Matching(map_call[1], map_call[2]) :
          \A i \in Rows(zip_geo) : zip_geo[i].zip # df[j].zip.s

\* C2 as claimed: every cleaned incident has a category, a timestamp at or
\* after 2020-01-01 00:00 and a ZIP of exactly 5 characters.
C2_CleanedRowsWellFormed ==
    pc = "exists" =>
        \A j \in Rows(df) :
            /\ ~df[j].nibrs_code_name.isna
            /\ ~df[j].incident_datetime.isna
            /\ HoursOf(df[j].incident_datetime.t) >= HoursOf(<<2020, 1, 1, 0>>)
            /\ Len(df[j].zip.s) = 5

AfterIsin == {"options", "layout", "serving"}

\* C3: a retained boundary has the ZIP of some cleaned incident, and a loaded
\* boundary whose ZIP is that of some cleaned incident is retained.
C3_BoundariesAreThoseOfIncidents ==
    pc \in AfterIsin =>
        LET used == {i \in Rows(archive) : \E j \in Rows(df) : df[j].zip.s = archive[i]}
        IN  /\ \A k \in Rows(zip_geo) : \E j \in Rows(df) : df[j].zip.s = zip_geo[k].zip
            /\ Len(zip_geo) = Cardinality(used)
            /\ \A i \in used : \E k \in Rows(zip_geo) : zip_geo[k].ZCTA5CE20 = archive[i]

C3_Witness ==
    /\ pc = "options"
    /\ Len(zip_geo) >= 1
    /\ Len(zip_geo) < Len(archive)

\* C4: the map view has one row per retained boundary, in order, whose count
\* is present and is the number of matching incidents of that ZIP.
C4_MapHasEveryBoundary ==
    MapDrawn =>
        /\ Len(map_fig) = Len(zip_geo)
        /\ \A i \in Rows(zip_geo) :
              /\ map_fig[i].zip = zip_geo[i].zip
              /\ ~map_fig[i].count.isna
              /\ map_fig[i].count.v =
                    Cardinality({j \in Matching(map_call[1], map_call[2]) :
                                    df[j].zip.s = zip_geo[i].zip})

C4_Witness ==
    /\ MapDrawn
    /\ map_call[1] = DefaultCrime
    /\ Matching(map_call[1], map_call[2]) = {}
    /\ Len(map_fig) >= 2
    /\ \A i \in Rows(map_fig) : map_fig[i].count = Count(0)

TrendSum == SeqSum([i \in Rows(trend_fig.data) |-> trend_fig.data[i].count])

\* the count the hourly view shows for hour h (none shown counts as 0)
HourlyAt(h) ==
    LET shown == SelectSeq(hourly_fig.data, LAMBDA r : r.key = h)
    IN  SeqSum([i \in Rows(shown) |-> shown[i].count])

\* C5: the monthly counts, and the hourly counts over hours 0..23, each sum to
\* the number of cleaned incidents of the category drawn.
C5_TrendSumsAreCategoryTotals ==
    /\ (pc = "serving" /\ trend_fig.title # "") =>
          TrendSum = Cardinality(OfCategory(trend_fig.title))
    /\ (pc = "serving" /\ hourly_fig.title # "") =>
          SeqSum([h \in 1..24 |-> HourlyAt(h - 1)]) = Cardinality(OfCategory(hourly_fig.title))

C5_Witness ==
    /\ pc = "serving"
    /\ month # month_options[1]
    /\ trend_fig.title = crime
    /\ hourly_fig.title = crime
    /\ Len(trend_fig.data) = 2
    /\ TrendSum = 2
    /\ SeqSum([h \in 1..24 |-> HourlyAt(h - 1)]) = 2

\* the raw rows the cleaning is to keep
Kept ==
    {k \in Rows(csv) :
        /\ ~csv[k].incident_datetime.isna
        /\ Len(csv[k].incident_datetime.text) = 4
        /\ HoursOf(csv[k].incident_datetime.text) >= HoursOf(<<2020, 1, 1, 0>>)
        /\ ~csv[k].zip.isna
        /\ ~csv[k].nibrs_code_name.isna}

\* C6: the cleaned table holds exactly the raw rows whose timestamp parses
\* and is not before the cutoff and whose ZIP and category are present.
C6_RetainedIffCompleteAndRecent ==
    pc \in {"zfill", "derive", "exists"} =>
        /\ {df[j].index + 1 : j \in Rows(df)} = Kept
        /\ Len(df) = Cardinality(Kept)

C6_Witness ==
    /\ pc = "exists"
    /\ \E j \in Rows(df) : df[j].incident_datetime.t = <<2020, 1, 1, 0>>
    /\ \E k \in Rows(csv) :
          /\ csv[k].incident_datetime = Text(<<2019, 12, 31, 23>>)
          /\ ~csv[k].zip.isna
          /\ ~csv[k].nibrs_code_name.isna
          /\ k \notin Kept

\* the raw zip cell holds the number n, or the text of n
HoldsZip(cell, n) ==
    \/ cell.kind \in {"int", "float"} /\ ~cell.isna /\ cell.n = n
    \/ cell.kind = "str" /\ cell.s = IntToStr(n)

\* C7 as claimed: 98101 normalizes to "98101" and 8101 to "08101", as a
\* string or as a number, and normalizing again changes nothing.
C7_ZipNormalization ==
    pc \in {"derive", "exists"} =>
        \A j \in Rows(df) :
            LET raw == csv[df[j].index + 1].zip
            IN  /\ HoldsZip(raw, 98101) => df[j].zip.s = <<"9", "8", "1", "0", "1">>
                /\ HoldsZip(raw, 8101) => df[j].zip.s = <<"0", "8", "1", "0", "1">>
                /\ NormalizeZip(df[j].zip) = df[j].zip

\* C8: no callback changes the incident or the boundary table, and once every
\* request is dispatched each figure is the view of the current selection.
C8_ViewsDependOnSelectionOnly ==
    /\ [][(pc = "serving" /\ pc' = "serving") => (df' = df /\ zip_geo' = zip_geo)]_vars
    /\ []((pc = "serving" /\ queue = <<>>) =>
            /\ map_call = <<crime, month>>
            /\ map_fig = MapView(df, zip_geo, crime, month)
            /\ trend_fig = [title |-> crime, data |-> TrendView(df, crime)]
            /\ hourly_fig = [title |-> crime, data |-> HourlyView(df, crime)])

C8_Witness ==
    /\ pc = "serving"
    /\ queue = <<>>
    /\ crime # DefaultCrime
    /\ month # month_options[1]
    /\ map_call = <<crime, month>>
    /\ trend_fig.title = crime
    /\ zip_geo # <<>>

\* C9 as claimed: a start-up that skipped the download finds the shapefile.
C9_SkippedDownloadFindsShapefile ==
    (pc = "read_file" /\ skipped) => shpOnDisk

\* the month bucket m is that of some incident and of none earlier
EarliestMonth(m) ==
    /\ \E j \in Rows(df) : df[j].Month_Year = m
    /\ \A j \in Rows(df) :
          \E i \in Rows(df) :
              /\ df[i].Month_Year = m
              /\ HoursOf(df[i].incident_datetime.t) <= HoursOf(df[j].incident_datetime.t)

\* C10 as claimed: when start-up completes, the selected month is the
\* earliest month bucket and the selected category is one of the options.
C10_InitialSelectionIsValid ==
    [][(pc = "layout" /\ pc' = "serving") =>
          /\ EarliestMonth(month')
          /\ \E i \in Rows(crime_options') : crime_options'[i] = crime']_vars

\* C10 as amended: when start-up completes, the selected month is the
\* earliest month bucket and the selected category is "LARCENY/THEFT", which
\* is one of the options exactly when some cleaned incident has it.
C10_InitialSelectionIsDefault ==
    [][(pc = "layout" /\ pc' = "serving") =>
          /\ EarliestMonth(month')
          /\ crime' = "LARCENY/THEFT"
          /\ (\E i \in Rows(crime_options') : crime_options'[i] = crime')
                <=> (OfCategory("LARCENY/THEFT") # {})]_vars

C10_Witness ==
    /\ pc = "serving"
    /\ map_call = <<>>
    /\ crime = "LARCENY/THEFT"
    /\ OfCategory("LARCENY/THEFT") = {}
    /\ df # <<>>

====
